---- MODULE Spec2Model ----
(***************************************************************************)
(* Model of deployments/scripts/update-scanner-images.py: the scanner      *)
(* image updater.  Python strings are sequences of one-character strings,  *)
(* so that the regular expressions, rsplit, str.replace and the f-string   *)
(* formatting are modelled by what they do to the characters.              *)
(***************************************************************************)
EXTENDS Integers, Sequences, FiniteSets, TLC

VARIABLES
    tag,            \* parse_semver: the argument `tag`
    parsed,         \* parse_semver: the value returned for `tag`, or Unset
    registry,       \* the Docker Hub repository walked by fetch_tags
    next_url,       \* fetch_tags: the local `next_url`
    tags,           \* fetch_tags: the local `tags`
    visited,        \* history: the page URLs requested so far, in order
    fpc,            \* fetch_latest_semver_tag: position
    ferr,           \* fetch_latest_semver_tag: the exception raised, if any
    latest,         \* fetch_latest_semver_tag: the returned string
    images_file,    \* the constants file on disk: whether it exists, its text
    hub,            \* Docker Hub: the registry of each repository
    mapping,        \* TARGET_CONST_TO_REPOSITORY.items(), in iteration order
    run,            \* which invocation of main this is
    pc,             \* main: position
    idx,            \* compute_updates: the table entry the loop is at
    read_text,      \* main: the text read_text returned
    original_lines, \* main: the local `original_lines`
    constants,      \* main: the local `constants`
    updates,        \* compute_updates / main: the local `updates`
    updated_lines,  \* main: the local `updated_lines`
    report,         \* the report file on disk: its lines
    exit_code,      \* the value main returned
    error,          \* the exception main caught, if any
    writes,         \* history: how often images_file.write_text ran
    first_text,     \* history: the text of the constants file after the first run
    first_writes    \* history: the value of writes after the first run

semverVars == <<tag, parsed>>
fetchVars == <<registry, next_url, tags, visited, fpc, ferr, latest>>
mainVars == <<images_file, hub, mapping, run, pc, idx, read_text, original_lines, constants,
              updates, updated_lines, report, exit_code, error, writes, first_text,
              first_writes>>
vars == <<semverVars, fetchVars, mainVars>>

(***************************************************************************)
(* Characters                                                              *)
(***************************************************************************)
Digits == <<"0", "1", "2", "3", "4", "5", "6", "7", "8", "9">>

IsDigit(c) == \E i \in 1..Len(Digits) : Digits[i] = c

DigitVal(c) == (CHOOSE i \in 1..Len(Digits) : Digits[i] = c) - 1

\* Python's None, and "no value yet" for a variable holding an Optional
None == <<>>
Unset == <<"unset">>

(***************************************************************************)
(* parse_semver and SEMVER_RE                                              *)
(***************************************************************************)
\* int(str) on a string of decimal digits
RECURSIVE int(_)
int(s) ==
    IF s = <<>> THEN 0
    ELSE 10 * int(SubSeq(s, 1, Len(s) - 1)) + DigitVal(s[Len(s)])

\* the index just after the greedy run \d* that starts at index i
RECURSIVE DigitsEnd(_, _)
DigitsEnd(s, i) ==
    IF i <= Len(s) /\ IsDigit(s[i]) THEN DigitsEnd(s, i + 1) ELSE i

\* SEMVER_RE.match(s): the three groups, or None.  The pattern is
\* ^v(\d+)\.(\d+)\.(\d+)$ ; in Python `$` matches at the end of the string
\* and also just before a newline that is the last character.
SEMVER_RE_match(s) ==
    LET e1 == DigitsEnd(s, 2)
        e2 == DigitsEnd(s, e1 + 1)
        e3 == DigitsEnd(s, e2 + 1)
        atEnd == \/ e3 = Len(s) + 1
                 \/ e3 = Len(s) /\ s[e3] = "\n"
    IN  IF /\ Len(s) >= 1 /\ s[1] = "v"
           /\ e1 > 2 /\ e1 <= Len(s) /\ s[e1] = "."
           /\ e2 > e1 + 1 /\ e2 <= Len(s) /\ s[e2] = "."
           /\ e3 > e2 + 1
           /\ atEnd
        THEN <<SubSeq(s, 2, e1 - 1), SubSeq(s, e1 + 1, e2 - 1), SubSeq(s, e2 + 1, e3 - 1)>>
        ELSE None

parse_semver(t) ==
    LET match == SEMVER_RE_match(t)
    IN  IF match = None THEN None
        ELSE <<int(match[1]), int(match[2]), int(match[3])>>

(***************************************************************************)
(* fetch_latest_semver_tag: selection and formatting                       *)
(***************************************************************************)
\* str(n) for a non-negative int, as the f-string renders it
RECURSIVE str(_)
str(n) ==
    IF n < 10 THEN <<Digits[n + 1]>>
    ELSE str(n \div 10) \o <<Digits[(n % 10) + 1]>>

\* the format string with minor and patch exchanged
FormatSemver_Swapped(v) == <<"v">> \o str(v[1]) \o <<".">> \o str(v[3]) \o <<".">> \o str(v[2])

\* f"v{latest[0]}.{latest[1]}.{latest[2]}"
FormatSemver(v) == <<"v">> \o str(v[1]) \o <<".">> \o str(v[2]) \o <<".">> \o str(v[3])

\* Python's tuple comparison a < b on triples of ints
TupleLess(a, b) ==
    \/ a[1] < b[1]
    \/ a[1] = b[1] /\ a[2] < b[2]
    \/ a[1] = b[1] /\ a[2] = b[2] /\ a[3] < b[3]

\* max(versions) on a non-empty list of triples
RECURSIVE max(_)
max(versions) ==
    IF Len(versions) = 1 THEN versions[1]
    ELSE LET rest == max(Tail(versions))
         IN  IF TupleLess(versions[1], rest) THEN rest ELSE versions[1]

\* [version for tag in tags if (version := parse_semver(tag)) is not None]
RECURSIVE Versions(_)
Versions(ts) ==
    IF ts = <<>> THEN <<>>
    ELSE LET version == parse_semver(Head(ts))
         IN  (IF version = None THEN <<>> ELSE <<version>>) \o Versions(Tail(ts))

(***************************************************************************)
(* fetch_tags: the registry and the page walk                              *)
(***************************************************************************)
\* payload.get("next") of a page without continuation (null or absent)
NoUrl == 0

\* the page the fixed first URL (...tags?page_size=100) designates
FirstPage == 1

\* a result whose "name" is a string, and one whose "name" is absent or not a string
StrName(s) == [is_str |-> TRUE, name |-> s]
NonStrName == [is_str |-> FALSE, name |-> <<>>]

\* the loop leaving at the first result whose name is not a string
RECURSIVE ResultNames_Break(_)
ResultNames_Break(results) ==
    IF results = <<>> \/ ~Head(results).is_str THEN <<>>
    ELSE <<Head(results).name>> \o ResultNames_Break(Tail(results))

\* the loop body over payload.get("results", []): the names appended to tags
RECURSIVE ResultNames(_)
ResultNames(results) ==
    IF results = <<>> THEN <<>>
    ELSE (IF Head(results).is_str THEN <<Head(results).name>> ELSE <<>>)
         \o ResultNames(Tail(results))

PageNames(page) == IF page.has_results THEN ResultNames(page.results) ELSE <<>>

\* a walk that never follows the continuation reference
PayloadNext_Ignored(page) == NoUrl

\* payload.get("next")
PayloadNext(page) == page.next

\* the pages a registry of the model holds
MaxPages == 2

\* the walk of a registry whose `next` references form a cycle never ends;
\* the model stops requesting after MaxRequests requests
MaxRequests == MaxPages + 1

(***************************************************************************)
(* The constants file: CONST_LINE_RE, parse_image_constants, the tag of an *)
(* image reference, str.replace                                            *)
(***************************************************************************)
Upper == <<"A", "B", "C", "D", "E", "F", "G", "H", "I", "J", "K", "L", "M", "N", "O", "P", "Q", "R", "S", "T", "U", "V", "W", "X", "Y", "Z">>

Lower == <<"a", "b", "c", "d", "e", "f", "g", "h", "i", "j", "k", "l", "m", "n", "o", "p", "q", "r", "s", "t", "u", "v", "w", "x", "y", "z">>

IsLetter(c) == \E i \in 1..Len(Upper) : Upper[i] = c \/ Lower[i] = c

\* \s on the characters a line of the file holds
IsSpace(c) == c \in {" ", "\t", "\n", "\r"}

IsIdentStart(c) == IsLetter(c) \/ c = "_"

IsIdentChar(c) == IsIdentStart(c) \/ IsDigit(c)

\* the index just after the greedy run \s* that starts at index i
RECURSIVE SpaceEnd(_, _)
SpaceEnd(s, i) ==
    IF i <= Len(s) /\ IsSpace(s[i]) THEN SpaceEnd(s, i + 1) ELSE i

\* the index just after the greedy run [A-Za-z0-9_]* that starts at index i
RECURSIVE IdentEnd(_, _)
IdentEnd(s, i) ==
    IF i <= Len(s) /\ IsIdentChar(s[i]) THEN IdentEnd(s, i + 1) ELSE i

\* the index just after the greedy run [^"]* that starts at index i
RECURSIVE ValueEnd(_, _)
ValueEnd(s, i) ==
    IF i <= Len(s) /\ s[i] # "\"" THEN ValueEnd(s, i + 1) ELSE i

NoMatch == [ok |-> FALSE, const |-> <<>>, value |-> <<>>, start |-> 0]

\* CONST_LINE_RE.match(line): the groups const and value and the index at
\* which the value starts, for ^(\s*)([A-Za-z_][A-Za-z0-9_]*)\s*=\s*"([^"]+)"
CONST_LINE_RE_match(line) ==
    LET i1 == SpaceEnd(line, 1)
        i2 == IdentEnd(line, i1)
        i3 == SpaceEnd(line, i2)
        i4 == SpaceEnd(line, i3 + 1)
        i5 == ValueEnd(line, i4 + 1)
    IN  IF /\ i1 <= Len(line) /\ IsIdentStart(line[i1])
           /\ i3 <= Len(line) /\ line[i3] = "="
           /\ i4 <= Len(line) /\ line[i4] = "\""
           /\ i5 > i4 + 1
           /\ i5 <= Len(line) /\ line[i5] = "\""
        THEN [ok |-> TRUE, const |-> SubSeq(line, i1, i2 - 1),
              value |-> SubSeq(line, i4 + 1, i5 - 1), start |-> i4 + 1]
        ELSE NoMatch

\* constants[const_name] = (index, value) on a dict held as a function
Put(d, k, v) == [x \in (DOMAIN d) \cup {k} |-> IF x = k THEN v ELSE d[x]]

\* the loop of parse_image_constants from line `index` on; the index of a
\* line is its position in the sequence (enumerate counts from 0, the
\* sequence from 1)
RECURSIVE ParseFrom(_, _, _)
ParseFrom(lines, index, found) ==
    IF index > Len(lines) THEN found
    ELSE LET match == CONST_LINE_RE_match(lines[index])
         IN  ParseFrom(lines, index + 1,
                 IF match.ok
                 THEN Put(found, match.const, [index |-> index, value |-> match.value])
                 ELSE found)

parse_image_constants(lines) == ParseFrom(lines, 1, <<>>)

\* the index of the last ":" of value, 0 when it holds none
LastColon(value) ==
    IF \E k \in 1..Len(value) : value[k] = ":"
    THEN CHOOSE k \in 1..Len(value) :
            value[k] = ":" /\ \A m \in (k + 1)..Len(value) : value[m] # ":"
    ELSE 0

\* the tag taken after the first colon, value.split(":")[1]
extract_image_tag_FirstColon(value) ==
    IF LastColon(value) = 0 THEN [ok |-> FALSE, tag |-> <<>>]
    ELSE LET first == CHOOSE k \in 1..Len(value) :
                          value[k] = ":" /\ \A m \in 1..(k - 1) : value[m] # ":"
             rest == SubSeq(value, first + 1, Len(value))
             stop == IF \E k \in 1..Len(rest) : rest[k] = ":"
                     THEN CHOOSE k \in 1..Len(rest) :
                              rest[k] = ":" /\ \A m \in 1..(k - 1) : rest[m] # ":"
                     ELSE Len(rest) + 1
         IN  [ok |-> TRUE, tag |-> SubSeq(rest, 1, stop - 1)]

\* extract_image_tag: value.rsplit(":", 1)[1], or ValueError
extract_image_tag(value) ==
    IF LastColon(value) = 0 THEN [ok |-> FALSE, tag |-> <<>>]
    ELSE [ok |-> TRUE, tag |-> SubSeq(value, LastColon(value) + 1, Len(value))]

\* replace_image_tag: value.rsplit(":", 1)[0] + ":" + new_tag, or ValueError
replace_image_tag(value, new_tag) ==
    IF LastColon(value) = 0 THEN [ok |-> FALSE, value |-> <<>>]
    ELSE [ok |-> TRUE,
          value |-> SubSeq(value, 1, LastColon(value) - 1) \o <<":">> \o new_tag]

\* s.find(old): the first index at which old occurs in s, 0 when it does not
Find(s, old) ==
    LET at == {i \in 1..(Len(s) - Len(old) + 1) : SubSeq(s, i, i + Len(old) - 1) = old}
    IN  IF at = {} THEN 0 ELSE CHOOSE i \in at : \A m \in at : i <= m

\* s.replace(old, new): every occurrence replaced
RECURSIVE ReplaceAll(_, _, _)
ReplaceAll(s, old, new) ==
    IF Find(s, old) = 0 THEN s
    ELSE SubSeq(s, 1, Find(s, old) - 1) \o new
         \o ReplaceAll(SubSeq(s, Find(s, old) + Len(old), Len(s)), old, new)

\* s.replace(old, new, 1)
Replace1(s, old, new) ==
    IF Find(s, old) = 0 THEN s
    ELSE SubSeq(s, 1, Find(s, old) - 1) \o new
         \o SubSeq(s, Find(s, old) + Len(old), Len(s))

\* text.splitlines(keepends=True) on text whose line ends are "\n"
RECURSIVE splitlines(_)
splitlines(text) ==
    IF text = <<>> THEN <<>>
    ELSE LET ends == {k \in 1..Len(text) : text[k] = "\n"}
             cut == IF ends = {} THEN Len(text)
                    ELSE CHOOSE k \in ends : \A m \in ends : k <= m
         IN  <<SubSeq(text, 1, cut)>> \o splitlines(SubSeq(text, cut + 1, Len(text)))

\* "".join(lines)
RECURSIVE join(_)
join(lines) == IF lines = <<>> THEN <<>> ELSE Head(lines) \o join(Tail(lines))

(***************************************************************************)
(* compute_updates, apply_updates                                          *)
(***************************************************************************)
\* the model runs the first NumTracked entries of the table
NumTracked == 2

TARGET_CONST_TO_REPOSITORY ==
    SubSeq(
    << 
       [const_name |-> <<"C">>,
        repository |-> <<"h", "o", "r", "u", "s", "e", "c", "-", "c">>],
       [const_name |-> <<"C", "s", "h", "a", "r", "p">>,
        repository |-> <<"h", "o", "r", "u", "s", "e", "c", "-", "c", "s", "h", "a", "r", "p">>],
       [const_name |-> <<"E", "l", "i", "x", "i", "r">>,
        repository |-> <<"h", "o", "r", "u", "s", "e", "c", "-", "e", "l", "i", "x", "i", "r">>],
       [const_name |-> <<"G", "e", "n", "e", "r", "i", "c">>,
        repository |-> <<"h", "o", "r", "u", "s", "e", "c", "-", "g", "e", "n", "e", "r", "i", "c">>],
       [const_name |-> <<"G", "o">>,
        repository |-> <<"h", "o", "r", "u", "s", "e", "c", "-", "g", "o">>],
       [const_name |-> <<"H", "C", "L">>,
        repository |-> <<"h", "o", "r", "u", "s", "e", "c", "-", "h", "c", "l">>],
       [const_name |-> <<"J", "a", "v", "a", "s", "c", "r", "i", "p", "t">>,
        repository |-> <<"h", "o", "r", "u", "s", "e", "c", "-", "j", "s">>],
       [const_name |-> <<"L", "e", "a", "k", "s">>,
        repository |-> <<"h", "o", "r", "u", "s", "e", "c", "-", "l", "e", "a", "k", "s">>],
       [const_name |-> <<"P", "H", "P">>,
        repository |-> <<"h", "o", "r", "u", "s", "e", "c", "-", "p", "h", "p">>],
       [const_name |-> <<"P", "y", "t", "h", "o", "n">>,
        repository |-> <<"h", "o", "r", "u", "s", "e", "c", "-", "p", "y", "t", "h", "o", "n">>],
       [const_name |-> <<"R", "u", "b", "y">>,
        repository |-> <<"h", "o", "r", "u", "s", "e", "c", "-", "r", "u", "b", "y">>],
       [const_name |-> <<"S", "h", "e", "l", "l">>,
        repository |-> <<"h", "o", "r", "u", "s", "e", "c", "-", "s", "h", "e", "l", "l">>] >>,
    1, NumTracked)

\* ord(c) of a character of an identifier
Ord(c) ==
    IF IsDigit(c) THEN 48 + DigitVal(c)
    ELSE IF c = "_" THEN 95
    ELSE IF \E i \in 1..Len(Upper) : Upper[i] = c
         THEN 64 + (CHOOSE i \in 1..Len(Upper) : Upper[i] = c)
         ELSE 96 + (CHOOSE i \in 1..Len(Lower) : Lower[i] = c)

\* Python's a < b on strings
RECURSIVE StrLess(_, _)
StrLess(a, b) ==
    IF b = <<>> THEN FALSE
    ELSE IF a = <<>> THEN TRUE
    ELSE IF Head(a) # Head(b) THEN Ord(Head(a)) < Ord(Head(b))
    ELSE StrLess(Tail(a), Tail(b))

\* insertion of one record into a list sorted by const_name, after the
\* records whose key is not greater (sorted is stable)
RECURSIVE Insert(_, _)
Insert(sorted, item) ==
    IF sorted = <<>> THEN <<item>>
    ELSE IF StrLess(item.const_name, Head(sorted).const_name)
         THEN <<item>> \o sorted
         ELSE <<Head(sorted)>> \o Insert(Tail(sorted), item)

\* the records left in the order the loop appended them
sorted_AsAppended(ups) == ups

\* sorted(updates, key=lambda item: item.const_name)
RECURSIVE sorted(_)
sorted(ups) ==
    IF ups = <<>> THEN <<>>
    ELSE Insert(sorted(SubSeq(ups, 1, Len(ups) - 1)), ups[Len(ups)])

\* fetch_tags as one call: the walk from url on, tags being the names so far
RECURSIVE fetch_tags(_, _, _, _)
fetch_tags(reg, url, names, fuel) ==
    IF url = NoUrl THEN [status |-> "ok", tags |-> names]
    ELSE IF fuel = 0 THEN [status |-> "endless", tags |-> names]
    ELSE IF reg[url].status = "error" THEN [status |-> "URLError", tags |-> <<>>]
    ELSE fetch_tags(reg, PayloadNext(reg[url]), names \o PageNames(reg[url]), fuel - 1)

\* fetch_latest_semver_tag as one call: the tag returned or the exception
fetch_latest_semver_tag(reg) ==
    LET fetched == fetch_tags(reg, FirstPage, <<>>, MaxRequests)
    IN  IF fetched.status # "ok" THEN [status |-> fetched.status, tag |-> <<>>]
        ELSE IF Versions(fetched.tags) = <<>> THEN [status |-> "ValueError", tag |-> <<>>]
        ELSE [status |-> "ok", tag |-> FormatSemver(max(Versions(fetched.tags)))]

\* an iteration that skips an identifier it cannot process
compute_one_Skip(entry, consts, registries, ups) ==
    IF entry.const_name \notin DOMAIN consts
    THEN [error |-> "none", updates |-> ups]
    ELSE LET value == consts[entry.const_name].value
             current == extract_image_tag(value)
             fetched == fetch_latest_semver_tag(registries[entry.repository])
         IN  IF ~current.ok \/ fetched.status # "ok" \/ current.tag = fetched.tag
             THEN [error |-> "none", updates |-> ups]
             ELSE [error |-> "none",
                   updates |-> Append(ups,
                       [const_name |-> entry.const_name,
                        repository |-> entry.repository,
                        from_tag |-> current.tag,
                        to_tag |-> fetched.tag])]

\* one iteration of the loop of compute_updates, for the table entry `entry`:
\* the exception it raises ("none" when it raises none) and the updates after it
compute_one(entry, consts, registries, ups) ==
    IF entry.const_name \notin DOMAIN consts
    THEN [error |-> "KeyError", updates |-> ups]
    ELSE LET value == consts[entry.const_name].value
             current == extract_image_tag(value)
             fetched == fetch_latest_semver_tag(registries[entry.repository])
         IN  IF ~current.ok THEN [error |-> "ValueError", updates |-> ups]
             ELSE IF fetched.status # "ok" THEN [error |-> fetched.status, updates |-> ups]
             ELSE IF parse_semver(fetched.tag) = None
                  THEN [error |-> "ValueError", updates |-> ups]
             ELSE IF current.tag # fetched.tag
                  THEN [error |-> "none",
                        updates |-> Append(ups,
                            [const_name |-> entry.const_name,
                             repository |-> entry.repository,
                             from_tag |-> current.tag,
                             to_tag |-> fetched.tag])]
             ELSE [error |-> "none", updates |-> ups]

\* the loop of apply_updates over updates[k..], updated_lines being the copy
RECURSIVE apply_from(_, _, _, _)
apply_from(buffer, consts, ups, k) ==
    IF k > Len(ups) THEN buffer
    ELSE LET line_index == consts[ups[k].const_name].index
             current_value == consts[ups[k].const_name].value
             new_value == replace_image_tag(current_value, ups[k].to_tag).value
         IN  apply_from(
                 [buffer EXCEPT
                     ![line_index] = Replace1(buffer[line_index], current_value, new_value)],
                 consts, ups, k + 1)

apply_updates(lines, consts, ups) == apply_from(lines, consts, ups, 1)


(***************************************************************************)
(* Specification SpecSemver: parse_semver applied to every string over     *)
(* TagAlphabet of length at most MaxTagLen.                                *)
(***************************************************************************)
MaxTagLen == 7

TagAlphabet == {"v", ".", "0", "1", "-", "\n"}

FetchIdle ==
    /\ registry = <<>>
    /\ next_url = NoUrl
    /\ tags = <<>>
    /\ visited = <<>>
    /\ fpc = "idle"
    /\ ferr = "none"
    /\ latest = <<>>

MainIdle ==
    /\ images_file = [exists |-> FALSE, text |-> <<>>]
    /\ hub = <<>>
    /\ mapping = <<>>
    /\ run = 0
    /\ pc = "idle"
    /\ idx = 0
    /\ read_text = <<>>
    /\ original_lines = <<>>
    /\ constants = <<>>
    /\ updates = <<>>
    /\ updated_lines = <<>>
    /\ report = <<>>
    /\ exit_code = -1
    /\ error = "none"
    /\ writes = 0
    /\ first_text = <<>>
    /\ first_writes = 0

InitSemver ==
    /\ tag = <<>>
    /\ parsed = Unset
    /\ FetchIdle
    /\ MainIdle

ExtendTag ==
    /\ Len(tag) < MaxTagLen
    /\ \E c \in TagAlphabet : tag' = Append(tag, c)
    /\ parsed' = Unset
    /\ UNCHANGED <<fetchVars, mainVars>>

ParseTag ==
    /\ parsed = Unset
    /\ parsed' = parse_semver(tag)
    /\ tag' = tag
    /\ UNCHANGED <<fetchVars, mainVars>>

NextSemver == ExtendTag \/ ParseTag

SpecSemver == InitSemver /\ [][NextSemver]_vars

(***************************************************************************)
(* Specification SpecFetch: fetch_latest_semver_tag against every registry *)
(* of at most MaxPages pages whose pages are drawn from PagePool.          *)
(***************************************************************************)
T_v1_0_0 == <<"v", "1", ".", "0", ".", "0">>
T_v1_2_0 == <<"v", "1", ".", "2", ".", "0">>
T_v1_1_5 == <<"v", "1", ".", "1", ".", "5">>
T_v1_10_0 == <<"v", "1", ".", "1", "0", ".", "0">>
T_v01_2_0 == <<"v", "0", "1", ".", "2", ".", "0">>
T_latest == <<"l", "a", "t", "e", "s", "t">>
T_v2_0_0_rc1 == <<"v", "2", ".", "0", ".", "0", "-", "r", "c", "1">>
T_v2_0_0_nl == <<"v", "2", ".", "0", ".", "0", "\n">>

\* the JSON bodies a page may carry: "results" absent, empty, or a list of results
ContentPool ==
    { [has_results |-> FALSE, results |-> <<>>],
      [has_results |-> TRUE, results |-> <<>>],
      [has_results |-> TRUE, results |->
          <<StrName(T_v1_0_0), StrName(T_v1_2_0), StrName(T_v1_1_5),
            StrName(T_latest), StrName(T_v2_0_0_rc1)>>],
      [has_results |-> TRUE, results |-> <<StrName(T_v1_10_0), StrName(T_v1_2_0)>>],
      [has_results |-> TRUE, results |-> <<StrName(T_v01_2_0)>>],
      [has_results |-> TRUE, results |-> <<NonStrName, StrName(T_latest)>>],
      [has_results |-> TRUE, results |-> <<StrName(T_v2_0_0_nl)>>] }

\* a page: urlopen either raises ("error") or yields a payload with a body
\* and a "next" reference (NoUrl, or the URL of a page)
PagePool ==
    { [status |-> "ok", has_results |-> c.has_results, results |-> c.results, next |-> n] :
          c \in ContentPool, n \in {NoUrl} \cup (1..MaxPages) }
    \cup { [status |-> "error", has_results |-> FALSE, results |-> <<>>, next |-> NoUrl] }

SemverIdle ==
    /\ tag = <<>>
    /\ parsed = Unset

InitFetch ==
    /\ SemverIdle
    /\ MainIdle
    /\ registry \in [1..MaxPages -> PagePool]
    /\ next_url = FirstPage
    /\ tags = <<>>
    /\ visited = <<>>
    /\ fpc = "walk"
    /\ ferr = "none"
    /\ latest = <<>>

\* one iteration of `while next_url:` whose urlopen/json.load succeeds
RequestPage ==
    /\ fpc = "walk"
    /\ next_url # NoUrl
    /\ Len(visited) < MaxRequests
    /\ registry[next_url].status = "ok"
    /\ tags' = tags \o PageNames(registry[next_url])
    /\ next_url' = PayloadNext(registry[next_url])
    /\ visited' = Append(visited, next_url)
    /\ UNCHANGED <<registry, fpc, ferr, latest, tag, parsed, mainVars>>

\* one iteration whose urlopen raises: the exception leaves fetch_tags and
\* fetch_latest_semver_tag
RequestFails ==
    /\ fpc = "walk"
    /\ next_url # NoUrl
    /\ Len(visited) < MaxRequests
    /\ registry[next_url].status = "error"
    /\ visited' = Append(visited, next_url)
    /\ fpc' = "raised"
    /\ ferr' = "URLError"
    /\ UNCHANGED <<registry, next_url, tags, latest, tag, parsed, mainVars>>

\* `while next_url:` ends, fetch_tags returns tags
ReturnTags ==
    /\ fpc = "walk"
    /\ next_url = NoUrl
    /\ fpc' = "fetched"
    /\ UNCHANGED <<registry, next_url, tags, visited, ferr, latest, tag, parsed, mainVars>>

\* fetch_latest_semver_tag after fetch_tags returned, some version found
SelectLatest ==
    /\ fpc = "fetched"
    /\ Versions(tags) # <<>>
    /\ latest' = FormatSemver(max(Versions(tags)))
    /\ fpc' = "returned"
    /\ UNCHANGED <<registry, next_url, tags, visited, ferr, tag, parsed, mainVars>>

\* fetch_latest_semver_tag after fetch_tags returned, `if not versions: raise`
NoStableTag ==
    /\ fpc = "fetched"
    /\ Versions(tags) = <<>>
    /\ fpc' = "raised"
    /\ ferr' = "ValueError"
    /\ UNCHANGED <<registry, next_url, tags, visited, latest, tag, parsed, mainVars>>

NextFetch == RequestPage \/ RequestFails \/ ReturnTags \/ SelectLatest \/ NoStableTag

SpecFetch == InitFetch /\ [][NextFetch]_vars

\* the interpreter runs the sequential loop of fetch_tags: an iteration, or
\* the return, that can be taken is taken
FairSpecFetch ==
    SpecFetch /\ WF_vars(RequestPage) /\ WF_vars(RequestFails) /\ WF_vars(ReturnTags)

(***************************************************************************)
(* Specification Spec: main, run on every constants file of at most        *)
(* MaxLines lines drawn from LinePool against every hub whose registries   *)
(* are drawn from RegistryPool, and run a second time on the file the      *)
(* first run left.  The hub does not change; the model learns the registry *)
(* of a repository at the first request for it.  SpecOrder is Spec with    *)
(* the table iterated in any order.                                        *)
(***************************************************************************)
MaxLines == NumTracked + 1

DOCKER_HUB_NAMESPACE == <<"h", "o", "r", "u", "s", "z", "u", "p">>

\* a line of images.go that records the image of `entry` at v1.0.0, pulled
\* through a registry mirror with a port, the old reference kept in a comment
OldLine(entry) ==
    LET value == <<"h", "u", "b", ":", "5", "0", "0", "0", "/">> \o entry.repository \o <<":">> \o T_v1_0_0
    IN  <<"\t">> \o entry.const_name \o <<" ", "=", " ", "\"">> \o value \o <<"\"", " ", "/", "/", " ", "w", "a", "s", " ", "\"">> \o value \o <<"\"", "\n">>

\* a line that records the image of `entry` at v1.2.0
NewLine(entry) ==
    <<"\t">> \o entry.const_name \o <<" ", "=", " ", "\"">>
    \o DOCKER_HUB_NAMESPACE \o <<"/">> \o entry.repository \o <<":">> \o T_v1_2_0
    \o <<"\"", "\n">>

\* a line whose value has no colon
NoColonLine(entry) ==
    entry.const_name \o <<"=", "\"">> \o entry.repository \o <<"-">> \o T_v1_0_0
    \o <<"\"", "\n">>

LinePool ==
    UNION { {OldLine(TARGET_CONST_TO_REPOSITORY[k]),
             NewLine(TARGET_CONST_TO_REPOSITORY[k]),
             NoColonLine(TARGET_CONST_TO_REPOSITORY[k])} : k \in 1..NumTracked }
    \cup { <<")", "\n">> }

Files == UNION { [1..n -> LinePool] : n \in 0..MaxLines }

OkPage(results, next) ==
    [status |-> "ok", has_results |-> TRUE, results |-> results, next |-> next]

\* a repository whose latest stable tag is v1.2.0, listed on two pages
Reg_Stable ==
    [p \in 1..MaxPages |->
        IF p = FirstPage
        THEN OkPage(<<StrName(T_v1_0_0), StrName(T_v1_2_0), StrName(T_v1_1_5),
                      StrName(T_latest), StrName(T_v2_0_0_rc1)>>, FirstPage + 1)
        ELSE OkPage(<<NonStrName, StrName(T_v01_2_0), StrName(T_v1_0_0)>>, NoUrl)]

\* a repository without stable tag
Reg_NoStable ==
    [p \in 1..MaxPages |-> OkPage(<<StrName(T_latest), StrName(T_v2_0_0_rc1)>>, NoUrl)]

\* a repository the hub fails to list
Reg_Down ==
    [p \in 1..MaxPages |->
        [status |-> "error", has_results |-> FALSE, results |-> <<>>, next |-> NoUrl]]

RegistryPool == {Reg_Stable, Reg_NoStable, Reg_Down}

\* the registry of a repository no request has reached yet
NotListed == <<>>

Repositories == {TARGET_CONST_TO_REPOSITORY[k].repository : k \in 1..NumTracked}

Orders ==
    {o \in [1..NumTracked -> 1..NumTracked] : \A i, j \in 1..NumTracked : o[i] = o[j] => i = j}

InitMainIn(orders) ==
    /\ SemverIdle
    /\ FetchIdle
    /\ images_file \in {[exists |-> TRUE, text |-> join(f)] : f \in Files}
                       \cup {[exists |-> FALSE, text |-> <<>>]}
    /\ hub = [r \in Repositories |-> NotListed]
    /\ mapping \in {[k \in 1..NumTracked |-> TARGET_CONST_TO_REPOSITORY[o[k]]] : o \in orders}
    /\ run = 1
    /\ pc = "start"
    /\ idx = 0
    /\ read_text = <<>>
    /\ original_lines = <<>>
    /\ constants = <<>>
    /\ updates = <<>>
    /\ updated_lines = <<>>
    /\ report = <<>>
    /\ exit_code = -1
    /\ error = "none"
    /\ writes = 0
    /\ first_text = <<>>
    /\ first_writes = 0

Init == InitMainIn({[k \in 1..NumTracked |-> k]})

InitOrder == InitMainIn(Orders)

\* main: `if not args.images_file.exists(): return 1`
MainMissingFile ==
    /\ pc = "start"
    /\ ~images_file.exists
    /\ pc' = "exit"
    /\ exit_code' = 1
    /\ error' = "FileNotFound"
    /\ UNCHANGED <<images_file, hub, mapping, run, idx, read_text, original_lines, constants,
                   updates, updated_lines, report, writes, first_text, first_writes, semverVars, fetchVars>>

\* main: read_text().splitlines(keepends=True), parse_image_constants, and
\* the entry of compute_updates
MainParse ==
    /\ pc = "start"
    /\ images_file.exists
    /\ read_text' = images_file.text
    /\ original_lines' = splitlines(images_file.text)
    /\ constants' = parse_image_constants(splitlines(images_file.text))
    /\ updates' = <<>>
    /\ idx' = 1
    /\ pc' = "compute"
    /\ UNCHANGED <<images_file, hub, mapping, run, updated_lines, report, exit_code, error,
                   writes, first_text, first_writes, semverVars, fetchVars>>

\* the iteration for `entry` reaches fetch_latest_semver_tag: the constant
\* is in the file and its value holds a colon
ReachesFetch(entry) ==
    /\ entry.const_name \in DOMAIN constants
    /\ extract_image_tag(constants[entry.const_name].value).ok

\* the hub as the iteration for `entry` finds it: the registry of a
\* repository is fixed by the first request that reaches it
HubSeenBy(entry, reg) ==
    IF ReachesFetch(entry) THEN [hub EXCEPT ![entry.repository] = reg] ELSE hub

Answers(entry) ==
    IF ReachesFetch(entry) /\ hub[entry.repository] = NotListed
    THEN RegistryPool
    ELSE {hub[entry.repository]}

\* compute_updates: one iteration of the loop that raises nothing
ComputeOne ==
    /\ pc = "compute"
    /\ idx <= Len(mapping)
    /\ \E reg \in Answers(mapping[idx]) :
          LET seen == HubSeenBy(mapping[idx], reg)
              result == compute_one(mapping[idx], constants, seen, updates)
          IN  /\ result.error = "none"
              /\ hub' = seen
              /\ updates' = result.updates
    /\ idx' = idx + 1
    /\ UNCHANGED <<images_file, mapping, run, pc, read_text, original_lines, constants,
                   updated_lines, report, exit_code, error, writes, first_text, first_writes,
                   semverVars, fetchVars>>

\* compute_updates: one iteration that raises; main catches the exception,
\* prints it and returns 1
ComputeRaises ==
    /\ pc = "compute"
    /\ idx <= Len(mapping)
    /\ \E reg \in Answers(mapping[idx]) :
          LET seen == HubSeenBy(mapping[idx], reg)
              result == compute_one(mapping[idx], constants, seen, updates)
          IN  /\ result.error \in {"KeyError", "ValueError", "URLError"}
              /\ hub' = seen
              /\ error' = result.error
    /\ exit_code' = 1
    /\ pc' = "exit"
    /\ UNCHANGED <<images_file, mapping, run, idx, read_text, original_lines, constants,
                   updates, updated_lines, report, writes, first_text, first_writes, semverVars, fetchVars>>

\* compute_updates: `return sorted(updates, key=...)`
ComputeReturn ==
    /\ pc = "compute"
    /\ idx > Len(mapping)
    /\ updates' = sorted(updates)
    /\ pc' = "apply"
    /\ UNCHANGED <<images_file, hub, mapping, run, idx, read_text, original_lines, constants,
                   updated_lines, report, exit_code, error, writes, first_text, first_writes,
                   semverVars, fetchVars>>

\* main: updated_lines = apply_updates(original_lines, constants, updates)
MainApply ==
    /\ pc = "apply"
    /\ updated_lines' = apply_updates(original_lines, constants, updates)
    /\ pc' = "write"
    /\ UNCHANGED <<images_file, hub, mapping, run, idx, read_text, original_lines, constants,
                   updates, report, exit_code, error, writes, first_text, first_writes,
                   semverVars, fetchVars>>

\* the file written whether or not there are updates
MainWrite_Always ==
    /\ pc = "write"
    /\ images_file' = [exists |-> TRUE, text |-> join(updated_lines)]
    /\ writes' = writes + 1
    /\ pc' = "report"
    /\ UNCHANGED <<hub, mapping, run, idx, read_text, original_lines, constants, updates,
                   updated_lines, report, exit_code, error, first_text, first_writes,
                   semverVars, fetchVars>>

\* main: `if updates: args.images_file.write_text("".join(updated_lines))`
MainWrite ==
    /\ pc = "write"
    /\ updates # <<>>
    /\ images_file' = [exists |-> TRUE, text |-> join(updated_lines)]
    /\ writes' = writes + 1
    /\ pc' = "report"
    /\ UNCHANGED <<hub, mapping, run, idx, read_text, original_lines, constants, updates,
                   updated_lines, report, exit_code, error, first_text, first_writes,
                   semverVars, fetchVars>>

\* main: `if updates:` not taken
MainNoWrite ==
    /\ pc = "write"
    /\ updates = <<>>
    /\ pc' = "report"
    /\ UNCHANGED <<images_file, hub, mapping, run, idx, read_text, original_lines, constants,
                   updates, updated_lines, report, exit_code, error, writes, first_text, first_writes,
                   semverVars, fetchVars>>

ReportText(text) == [text |-> text, repository |-> <<>>, from_tag |-> <<>>, to_tag |-> <<>>]

\* the lines write_report joins: the heading, the timestamp, then either the
\* no-update sentence or one bullet per update (a bullet is held with the
\* fields its f-string fills in; the backquotes of the markdown are left out)
write_report(ups) ==
    <<ReportText("## Scanner Governance"), ReportText(""),
      ReportText("Generated at: {timestamp}"), ReportText("")>>
    \o (IF ups = <<>>
        THEN <<ReportText("No scanner image updates were detected."), ReportText("")>>
        ELSE <<ReportText("Updated image tags:"), ReportText("")>>
             \o [k \in 1..Len(ups) |->
                    [text |-> "- {DOCKER_HUB_NAMESPACE}/{repository}: {from_tag} -> {to_tag}",
                     repository |-> ups[k].repository,
                     from_tag |-> ups[k].from_tag,
                     to_tag |-> ups[k].to_tag]]
             \o <<ReportText(""),
                  ReportText("Regression validation is executed by CI before opening this PR."),
                  ReportText("")>>)

\* main: write_report, the printed summary, `return 0`
MainReport ==
    /\ pc = "report"
    /\ report' = write_report(updates)
    /\ exit_code' = 0
    /\ pc' = "exit"
    /\ UNCHANGED <<images_file, hub, mapping, run, idx, read_text, original_lines, constants,
                   updates, updated_lines, error, writes, first_text, first_writes, semverVars, fetchVars>>

\* the script is run once more, on the file and the report the first run
\* left and against the same hub
RunAgain ==
    /\ pc = "exit"
    /\ run = 1
    /\ exit_code = 0
    /\ run' = 2
    /\ first_text' = images_file.text
    /\ first_writes' = writes
    /\ pc' = "start"
    /\ idx' = 0
    /\ read_text' = <<>>
    /\ original_lines' = <<>>
    /\ constants' = <<>>
    /\ updates' = <<>>
    /\ updated_lines' = <<>>
    /\ exit_code' = -1
    /\ UNCHANGED <<images_file, hub, mapping, report, error, writes, semverVars, fetchVars>>

Next ==
    \/ MainMissingFile \/ MainParse \/ ComputeOne \/ ComputeRaises \/ ComputeReturn
    \/ MainApply \/ MainWrite \/ MainNoWrite \/ MainReport \/ RunAgain

Spec == Init /\ [][Next]_vars

SpecOrder == InitOrder /\ [][Next]_vars


(***************************************************************************)
(* Properties of parse_semver and fetch_latest_semver_tag                  *)
(***************************************************************************)
\* t is exactly of the form v<digits>.<digits>.<digits>
ExactForm(t) ==
    \E i, j \in 1..Len(t) :
        /\ t[1] = "v" /\ 2 < i /\ i + 1 < j /\ j < Len(t)
        /\ t[i] = "." /\ t[j] = "."
        /\ \A k \in (2..Len(t)) \ {i, j} : IsDigit(t[k])

\* the number a string of decimal digits denotes
RECURSIVE Denote(_)
Denote(d) ==
    IF d = <<>> THEN 0
    ELSE DigitVal(Head(d)) * 10 ^ (Len(d) - 1) + Denote(Tail(d))

\* the three digit groups of a string of the exact form, and their numbers
Groups(t) ==
    LET dots == {k \in 1..Len(t) : t[k] = "."}
        i == CHOOSE k \in dots : \A m \in dots : k <= m
        j == CHOOSE k \in dots : \A m \in dots : m <= k
    IN  <<SubSeq(t, 2, i - 1), SubSeq(t, i + 1, j - 1), SubSeq(t, j + 1, Len(t))>>

Triple(t) == <<Denote(Groups(t)[1]), Denote(Groups(t)[2]), Denote(Groups(t)[3])>>

\* a <= b in the (major, minor, patch) ordering
Leq3(a, b) ==
    \/ a[1] < b[1]
    \/ a[1] = b[1] /\ a[2] < b[2]
    \/ a[1] = b[1] /\ a[2] = b[2] /\ a[3] <= b[3]

\* of the exact form, every group written without leading zeros
Canonical(t) ==
    /\ ExactForm(t)
    /\ \A g \in 1..3 : Groups(t)[g][1] = "0" => Len(Groups(t)[g]) = 1

TagSet == {tags[k] : k \in 1..Len(tags)}

\* C5: parse_semver returns None for every string that is not exactly of the
\* form v<digits>.<digits>.<digits>, and for every string of that form the
\* triple of integers its three digit groups denote.
C5_ParseSemverExact ==
    parsed # Unset =>
        IF ExactForm(tag) THEN parsed = Triple(tag) ELSE parsed = None

\* C4: when fetch_latest_semver_tag returns, some tag of the exact form was
\* fetched, the returned tag is of the exact form, is >= every fetched tag of
\* the exact form and has the triple of one of them (the other tags do not
\* influence it); when no fetched tag is of the exact form it raises the
\* "no stable tag" error instead of returning.
C4_LatestIsMaxOfQualifying ==
    LET Q == {t \in TagSet : ExactForm(t)}
    IN  /\ fpc = "returned" =>
            /\ Q # {}
            /\ ExactForm(latest)
            /\ \A t \in Q : Leq3(Triple(t), Triple(latest))
            /\ \E t \in Q : Triple(t) = Triple(latest)
        /\ (fpc = "raised" /\ ferr = "ValueError") => Q = {}

\* C10 (as stated): two distinct fetched tags of the exact form never have
\* the same triple under parse_semver, and the returned tag is one of the
\* fetched tags.
C10_NoTies ==
    /\ \A t1, t2 \in TagSet :
          (t1 # t2 /\ ExactForm(t1) /\ ExactForm(t2)) => parse_semver(t1) # parse_semver(t2)
    /\ fpc = "returned" => latest \in TagSet

\* C10 (amended): two distinct fetched tags written canonically (exact form,
\* no leading zeros) never have the same triple; the returned tag is the
\* canonical tag of the greatest triple parse_semver finds among the fetched
\* tags, and it is one of the fetched tags whenever a fetched tag with that
\* triple is canonical.
C10_CanonicalTagsDistinct ==
    /\ \A t1, t2 \in TagSet :
          (t1 # t2 /\ Canonical(t1) /\ Canonical(t2)) => parse_semver(t1) # parse_semver(t2)
    /\ fpc = "returned" =>
          /\ Canonical(latest)
          /\ \E t \in TagSet : parse_semver(t) = Triple(latest)
          /\ \A t \in TagSet : parse_semver(t) # None => Leq3(parse_semver(t), Triple(latest))
          /\ (\E t \in TagSet : Canonical(t) /\ parse_semver(t) = Triple(latest))
                => latest \in TagSet

\* a run that returned although two distinct fetched tags tie
C10_Witness ==
    /\ fpc = "returned"
    /\ \E t1, t2 \in TagSet :
          t1 # t2 /\ parse_semver(t1) # None /\ parse_semver(t1) = parse_semver(t2)
    /\ \E t1, t2 \in TagSet : t1 # t2 /\ Canonical(t1) /\ Canonical(t2)

(***************************************************************************)
(* Properties of fetch_tags                                                *)
(***************************************************************************)
IsStrResult(r) == r.is_str

\* the string names a page carries, in order
NamesOn(page) ==
    IF page.status = "ok" /\ page.has_results
    THEN LET rs == SelectSeq(page.results, IsStrResult)
         IN  [k \in 1..Len(rs) |-> rs[k].name]
    ELSE <<>>

\* the string names of the first n visited pages, page after page
RECURSIVE NamesServed(_)
NamesServed(n) ==
    IF n = 0 THEN <<>> ELSE NamesServed(n - 1) \o NamesOn(registry[visited[n]])

\* the chain of next references that starts at url ends within fuel pages
RECURSIVE ChainEnds(_, _)
ChainEnds(url, fuel) ==
    \/ url = NoUrl
    \/ fuel > 0 /\ ChainEnds(registry[url].next, fuel - 1)

ChainFinite == ChainEnds(FirstPage, MaxPages)

fetch_tags_returned == fpc = "fetched" \/ fpc = "returned" \/ (fpc = "raised" /\ ferr = "ValueError")

C8_WalkState ==
    /\ \A k \in 1..Len(visited) :
          visited[k] = IF k = 1 THEN FirstPage ELSE registry[visited[k - 1]].next
    /\ (fpc = "walk" /\ visited # <<>>) => next_url = registry[visited[Len(visited)]].next
    /\ (fpc = "walk" /\ visited = <<>>) => next_url = FirstPage
    /\ fetch_tags_returned =>
          /\ visited # <<>>
          /\ registry[visited[Len(visited)]].next = NoUrl
          /\ tags = NamesServed(Len(visited))

\* C8: fetch_tags requests the first page first and then, each time, the page
\* the last response's next reference names; it returns only after a response
\* without next reference, with the string names of all visited pages in page
\* order, duplicates kept; and when the chain of next references of the
\* registry is finite the walk eventually ends.
C8_PageWalk == []C8_WalkState /\ (ChainFinite => <>(fpc # "walk"))

\* fetch_tags returned after walking two pages or more
C8_Witness ==
    /\ fpc = "fetched"
    /\ Len(visited) >= 2
    /\ \E i, j \in 1..Len(tags) : i # j /\ tags[i] = tags[j]

\* a response that lacks "results" or holds a result without a string name
Malformed(page) ==
    /\ page.status = "ok"
    /\ \/ ~page.has_results
       \/ \E k \in 1..Len(page.results) : ~page.results[k].is_str

Occurrences(seq, x) == Cardinality({k \in 1..Len(seq) : seq[k] = x})

Tracked == {TARGET_CONST_TO_REPOSITORY[k] : k \in 1..NumTracked}

\* the lines of the file read that assign the constant c
LinesAssigning(c) ==
    {k \in 1..Len(original_lines) :
        LET m == CONST_LINE_RE_match(original_lines[k]) IN m.ok /\ m.const = c}

\* the last of them, and the value it assigns
RecordedLine(c) ==
    LET assigning == LinesAssigning(c)
    IN  CHOOSE k \in assigning : \A m \in assigning : m <= k

RecordedValue(c) == CONST_LINE_RE_match(original_lines[RecordedLine(c)]).value

Colons(v) == {k \in 1..Len(v) : v[k] = ":"}

\* the tag of an image reference: what follows its final colon
TagPart(v) == SubSeq(v, (CHOOSE k \in Colons(v) : \A m \in Colons(v) : m <= k) + 1, Len(v))

\* the image name of an image reference: what precedes its final colon
NamePart(v) == SubSeq(v, 1, Len(v) - Len(TagPart(v)) - 1)

\* the pages the walk of reg visits from url on
RECURSIVE ChainPages(_, _, _)
ChainPages(reg, url, fuel) ==
    IF url = NoUrl \/ fuel = 0 THEN {}
    ELSE {url} \cup (IF reg[url].status = "ok"
                     THEN ChainPages(reg, reg[url].next, fuel - 1) ELSE {})

Listable(reg) == \A p \in ChainPages(reg, FirstPage, MaxPages) : reg[p].status = "ok"

\* the set of stable tags the repository lists, whatever the page and the order
StableNames(reg) ==
    {t \in UNION { LET names == NamesOn(reg[p]) IN {names[k] : k \in 1..Len(names)} :
                     p \in ChainPages(reg, FirstPage, MaxPages) } : ExactForm(t)}

\* t is the latest stable tag of the repository
IsLatestStable(reg, t) ==
    /\ Canonical(t)
    /\ \E n \in StableNames(reg) : Triple(n) = Triple(t)
    /\ \A n \in StableNames(reg) : Leq3(Triple(n), Triple(t))

\* processing the tracked identifier of `entry` fails
Fails(entry) ==
    \/ /\ hub[entry.repository] # NotListed
       /\ ~Listable(hub[entry.repository]) \/ StableNames(hub[entry.repository]) = {}
    \/ LinesAssigning(entry.const_name) = {}
    \/ Colons(RecordedValue(entry.const_name)) = {}

\* the tag recorded for `entry` is the latest stable tag of its repository
Current(entry) ==
    /\ hub[entry.repository] # NotListed
    /\ Listable(hub[entry.repository])
    /\ LinesAssigning(entry.const_name) # {}
    /\ LET value == RecordedValue(entry.const_name)
       IN  /\ Colons(value) # {}
           /\ IsLatestStable(hub[entry.repository], TagPart(value))

WritesThisRun == writes - first_writes

Succeeded == pc = "exit" /\ exit_code = 0

\* C1: when processing some tracked identifier fails, the constants file is
\* never written and keeps the text that was read, whatever updates were
\* pending; and the file is written only after the loop of compute_updates
\* went through every tracked identifier without exception.
\* (the first implication is written consequent first, as B \/ ~A)
C1_AllOrNothing ==
    /\ \/ /\ WritesThisRun = 0
          /\ images_file.text = read_text
          /\ pc \in {"compute", "exit"}
          /\ pc = "exit" => exit_code = 1
       \/ ~(pc # "start" /\ images_file.exists /\ \E e \in Tracked : Fails(e))
    /\ error # "none" => (WritesThisRun = 0 /\ images_file.text = read_text)
    /\ WritesThisRun > 0 =>
          /\ idx = Len(mapping) + 1
          /\ error = "none"
          /\ \A e \in Tracked : ~Fails(e)

\* a run that failed on a later identifier with an update pending for an
\* earlier one
C1_Witness ==
    /\ pc = "exit"
    /\ exit_code = 1
    /\ idx > 1
    /\ updates # <<>>

\* C2: the second run on the file the first run left, against the same hub,
\* ends with exit code 0, produces no Update Record and leaves the file as it
\* was after the first run.
C2_Idempotent ==
    run = 2 =>
        /\ images_file.text = first_text
        /\ WritesThisRun = 0
        /\ error = "none"
        /\ updates = <<>>
        /\ pc = "exit" => exit_code = 0

\* a second run that ended, on a file the first run patched
C2_Witness ==
    /\ run = 2
    /\ pc = "exit"
    /\ first_writes = 1
    /\ Len(splitlines(first_text)) > 1

\* the const_name a < the const_name b, lexicographically by code point
Before(a, b) ==
    \E k \in 1..Len(b) :
        /\ \A m \in 1..(k - 1) : m <= Len(a) /\ a[m] = b[m]
        /\ k > Len(a) \/ (k <= Len(a) /\ Ord(a[k]) < Ord(b[k]))

\* C3: the buffer apply_updates returns has the length of the original; a
\* line that is not the recorded line of an updated identifier is unchanged;
\* in the recorded line of an updated identifier the first occurrence of the
\* recorded value, and nothing else, is replaced by the image name, ":" and
\* the target tag; the original buffer is left as it was read.
C3_PatchFrame ==
    (pc \in {"write", "report"} \/ Succeeded) =>
        /\ Len(updated_lines) = Len(original_lines)
        /\ original_lines = splitlines(read_text)
        /\ LET recorded == [u \in 1..Len(updates) |-> RecordedLine(updates[u].const_name)]
           IN
           \A k \in 1..Len(original_lines) :
              LET hits == {u \in 1..Len(updates) : recorded[u] = k}
              IN  IF hits = {} THEN updated_lines[k] = original_lines[k]
                  ELSE \A u \in hits :
                         LET line == original_lines[k]
                             v == RecordedValue(updates[u].const_name)
                             at == {p \in 1..(Len(line) - Len(v) + 1) :
                                      SubSeq(line, p, p + Len(v) - 1) = v}
                         IN  \E p \in at :
                               /\ \A q \in at : p <= q
                               /\ updated_lines[k] =
                                     SubSeq(line, 1, p - 1)
                                     \o NamePart(v) \o <<":">> \o updates[u].to_tag
                                     \o SubSeq(line, p + Len(v), Len(line))

\* a patched buffer with an untouched line, in which a replaced value occurs
\* a second time on its line
C3_Witness ==
    /\ pc = "write"
    /\ updates # <<>>
    /\ \E k \in 1..Len(original_lines) : updated_lines[k] = original_lines[k]
    /\ \E u \in 1..Len(updates) :
          LET line == original_lines[RecordedLine(updates[u].const_name)]
              v == RecordedValue(updates[u].const_name)
          IN  Cardinality({p \in 1..(Len(line) - Len(v) + 1) :
                              SubSeq(line, p, p + Len(v) - 1) = v}) > 1

compute_updates_returned == pc \in {"apply", "write", "report"} \/ Succeeded

\* C6: the list compute_updates returns is in ascending order of identifier,
\* holds at most one record per tracked identifier, and holds a record for an
\* identifier exactly when its recorded tag is not the latest stable tag of
\* its repository (the record naming both tags), whatever the order in which
\* the table is iterated and the registry lists its tags.
C6_UpdatesSortedAndExact ==
    compute_updates_returned =>
        /\ \A i, j \in 1..Len(updates) :
              i < j => Before(updates[i].const_name, updates[j].const_name)
        /\ \A u \in 1..Len(updates) :
              \E e \in Tracked :
                 /\ updates[u].const_name = e.const_name
                 /\ updates[u].repository = e.repository
                 /\ updates[u].from_tag = TagPart(RecordedValue(e.const_name))
                 /\ IsLatestStable(hub[e.repository], updates[u].to_tag)
        /\ \A e \in Tracked :
              (\E u \in 1..Len(updates) : updates[u].const_name = e.const_name) <=> ~Current(e)

\* compute_updates returned two records after iterating the table in an
\* order that is not the order of the identifiers
C6_Witness ==
    /\ pc = "apply"
    /\ Len(updates) >= 2
    /\ Before(mapping[Len(mapping)].const_name, mapping[1].const_name)

\* C7: when every tracked identifier's recorded tag is the latest stable tag
\* of its repository, the run ends with exit code 0 and no Update Record,
\* does not write the constants file, and writes the report with the line
\* "No scanner image updates were detected.".
C7_NoOpRun ==
    (pc = "exit" /\ images_file.exists /\ \A e \in Tracked : Current(e)) =>
        /\ exit_code = 0
        /\ updates = <<>>
        /\ WritesThisRun = 0
        /\ images_file.text = read_text
        /\ \E k \in 1..Len(report) : report[k].text = "No scanner image updates were detected."

\* a first run that ended on a file whose tags were all the latest
C7_Witness ==
    /\ run = 1
    /\ pc = "exit"
    /\ images_file.exists
    /\ \A e \in Tracked : Current(e)

====
